---- MODULE Spec2Model ----
(***************************************************************************)
(* Authoritative tick simulation of the hunter / hider / decoy game.       *)
(*                                                                         *)
(* Ammo-limited variant: src/server.js lines 1-341.                        *)
(*                                                                         *)
(* Units.  The source works in seconds and field units with                *)
(* dt = 1 / TICK_RATE.  The model counts time in ticks (timer, bullet      *)
(* life, NPC move timer) and lengths in 1/TICK_RATE of a field unit, so    *)
(* that `speed * dt` of the source is the integer `speed` here and every   *)
(* axis-aligned step is exact.  A field coordinate c is the integer        *)
(* c * TICK_RATE.  Stamina is counted in halves of a point (100 -> 200).   *)
(*                                                                         *)
(* Values the source leaves out of a record (`mark`, `ammo` of a player    *)
(* that connected after the last resetGame) are Undefined; arithmetic on   *)
(* them gives NaN, as in JavaScript.                                       *)
(***************************************************************************)
EXTENDS Integers, Sequences, FiniteSets, TLC

\* ------------------------------------------------------------------------
\* Program constants (src/server.js lines 16-27)
\* ------------------------------------------------------------------------
GAME_WIDTH == 2000
GAME_HEIGHT == 2000
TICK_RATE == 30
npcSpeed == 170
sprintSpeed == 300
hunterAmmo == 3

\* ------------------------------------------------------------------------
\* Bounds of the model
\* ------------------------------------------------------------------------
\* CONFIG.baseNPCs (20) and CONFIG.npcsPerPlayer (15), scaled down.
baseNPCs == 2
npcsPerPlayer == 0
\* CONFIG.gameDuration * TICK_RATE (3600 ticks in the source), scaled down.
gameDurationTicks == 5
\* Bullet life 1.5 s * TICK_RATE (45 ticks in the source), scaled down.
bulletLifeTicks == 2
\* The sockets that ever connect; socket.id is 1, 2, ... in connection order.
Sockets == {1, 2, 3}
\* Input messages that move a player, per match.
MaxMoves == 5
\* Mark actions that hit a target, per match.
MaxMarks == 2

\* ------------------------------------------------------------------------
\* JavaScript values
\* ------------------------------------------------------------------------
Undefined == -1
NaN == -2

Abs(a) == IF a < 0 THEN -a ELSE a
Sign(a) == IF a < 0 THEN -1 ELSE IF a > 0 THEN 1 ELSE 0
Min(a, b) == IF a < b THEN a ELSE b
Max(a, b) == IF a > b THEN a ELSE b

RECURSIVE SqrtSearch(_, _, _)
SqrtSearch(n, lo, hi) ==
  IF lo >= hi THEN lo
  ELSE LET mid == (lo + hi + 1) \div 2
       IN  IF mid * mid <= n THEN SqrtSearch(n, mid, hi)
           ELSE SqrtSearch(n, lo, mid - 1)

\* Math.sqrt, truncated to an integer.
ISqrt(n) == SqrtSearch(n, 0, 46340)

\* Field coordinate c in model units.
U(c) == c * TICK_RATE

\* (dx*dx + dy*dy) < rSq of the source, rSq given in field units squared.
\* The |dx|, |dy| test only keeps the squares inside TLC's integers.
WithinSq(dx, dy, r) ==
  /\ Abs(dx) <= U(r)
  /\ Abs(dy) <= U(r)
  /\ dx * dx + dy * dy < U(r) * U(r)

\* Insertion order of Object.keys(gameState.players): socket ids are
\* handed out in increasing order and never reinserted.
Keys(ps) == DOMAIN ps
FirstKey(ps) == CHOOSE k \in DOMAIN ps : \A j \in DOMAIN ps : k <= j

\* ------------------------------------------------------------------------
\* State
\* ------------------------------------------------------------------------
VARIABLES
  status,      \* gameState.status
  players,     \* gameState.players : socket id -> player record
  npcs,        \* gameState.npcs
  bullets,     \* gameState.bullets
  timer,       \* gameState.timer, in ticks
  events,      \* gameState.events
  out,         \* messages emitted by the last handler, in order
  tickLog,     \* per bullet handled by the last tick: what the loop did
  nextSocket,  \* number of sockets that have connected
  shotsFired,  \* bullets created since the last resetGame
  nMoves,      \* moving inputs handled since the last resetGame
  nMarks,      \* mark actions that hit a target since the last resetGame
  lastHandler  \* the handler that ran last

ammoVars == <<status, players, npcs, bullets, timer, events, out,
              tickLog, nextSocket, shotsFired, nMoves,
              nMarks, lastHandler>>

\* The server with walls (src/server.js lines 342-713).
VARIABLES
  wPlayers,     \* players : socket id -> player record
  wNpcs,        \* npcs
  wBullets,     \* bullets
  walls,        \* walls
  gameTimer,    \* gameTimer, in ticks
  gameRunning,  \* gameRunning
  gameInterval, \* is the interval of gameInterval set?
  wOut,         \* messages emitted by the last handler, in order
  wNextSocket,  \* number of sockets that have connected
  wHadHider,    \* did a hider exist since the last startGame()?
  wShots,       \* bullets created so far
  wLast         \* the handler that ran last

wallVars == <<wPlayers, wNpcs, wBullets, walls, gameTimer, gameRunning,
              gameInterval, wOut, wNextSocket, wHadHider, wShots, wLast>>

\* The first server (src/unnamed/part_000).
VARIABLES
  p0Status,     \* gameState.status
  p0Players,    \* gameState.players
  p0Npcs,       \* gameState.npcs
  p0Bullets,    \* gameState.bullets
  p0Timer,      \* gameState.timer, in ticks
  p0Events,     \* gameState.events
  p0Out,        \* messages emitted by the last handler, in order
  p0Log,        \* per bullet handled by the last tick: what it killed
  p0NextSocket, \* number of sockets that have connected
  p0Last        \* the handler that ran last

baseVars == <<p0Status, p0Players, p0Npcs, p0Bullets, p0Timer, p0Events,
              p0Out, p0Log, p0NextSocket, p0Last>>

\* The room relay (src/unnamed/part_001).
VARIABLES
  rooms,        \* rooms : code -> [hostId, clients]
  conns,        \* the connections: id -> [state, roomCode, isHost]
  rSent,        \* messages sent by the last handler
  rLast         \* the handler that ran last

relayVars == <<rooms, conns, rSent, rLast>>

vars == <<ammoVars, wallVars, baseVars, relayVars>>

\* What the handlers of one program leave alone: the other programs.
notAmmo == <<wallVars, baseVars, relayVars>>
notWalls == <<ammoVars, baseVars, relayVars>>
notBase == <<ammoVars, wallVars, relayVars>>
notRelay == <<ammoVars, wallVars, baseVars>>

Msg(type, reason, hunterWon, evs) ==
  [type |-> type, reason |-> reason, hunterWon |-> hunterWon, events |-> evs]

Ev(type, text) == [type |-> type, text |-> text]

\* ------------------------------------------------------------------------
\* randomPos (Math.random draws come from a small set of field points)
\* ------------------------------------------------------------------------
\* Two draws of randomPos, 33 field units apart: a bullet fired from one
\* toward the other is within the hit radius of it after one tick.
SpotA == [x |-> U(50), y |-> U(1949)]
SpotB == [x |-> U(83), y |-> U(1949)]
\* A third draw, 66 field units from SpotA: where a bullet fired from SpotA
\* along +x is when its life runs out.
SpotC == [x |-> U(116), y |-> U(1949)]
randomPos == {SpotA, SpotB}

\* ------------------------------------------------------------------------
\* resetGame
\* ------------------------------------------------------------------------
NewNpc(pos) ==
  [x |-> pos.x, y |-> pos.y, moveX |-> 0, moveY |-> 0, moveTimer |-> 0,
   sprinting |-> FALSE, mark |-> 0, dead |-> FALSE]

totalNPCs(playerCount) == baseNPCs + playerCount * npcsPerPlayer

\* resetGame without `p.role = "hider"` (line 78).
resetPlayers_KeepsRole(ps, playerPos, hunterId) ==
  [id \in DOMAIN ps |->
     [ps[id] EXCEPT !.x = playerPos[id].x, !.y = playerPos[id].y,
                    !.dead = FALSE,
                    !.ammo = IF id = hunterId THEN hunterAmmo ELSE 0,
                    !.stamina = 200,
                    !.role = IF id = hunterId THEN "hunter" ELSE ps[id].role,
                    !.mark = 0]]

\* npcPos : 1..totalNPCs -> randomPos, playerPos : ids -> randomPos,
\* hunterId : the player Math.random picks.
resetPlayers(ps, playerPos, hunterId) ==
  [id \in DOMAIN ps |->
     [ps[id] EXCEPT !.x = playerPos[id].x, !.y = playerPos[id].y,
                    !.dead = FALSE,
                    !.ammo = IF id = hunterId THEN hunterAmmo ELSE 0,
                    !.stamina = 200,
                    !.role = IF id = hunterId THEN "hunter" ELSE "hider",
                    !.mark = 0]]

resetNpcs(npcPos) == [i \in DOMAIN npcPos |-> NewNpc(npcPos[i])]

\* ------------------------------------------------------------------------
\* io.on("connection")
\* ------------------------------------------------------------------------
NewPlayer(isFirst) ==
  [x |-> U(GAME_WIDTH) \div 2, y |-> U(GAME_HEIGHT) \div 2, role |-> "hider",
   dead |-> FALSE, host |-> isFirst, activeSlot |-> 1, stamina |-> 200,
   ammo |-> Undefined, mark |-> Undefined]

Connection ==
  /\ UNCHANGED notAmmo
  /\ nextSocket + 1 \in Sockets
  /\ lastHandler' = "connection"
  /\ LET id == nextSocket + 1
     IN  /\ players' = [k \in DOMAIN players \cup {id} |->
                          IF k = id THEN NewPlayer(DOMAIN players = {})
                          ELSE players[k]]
         /\ nextSocket' = id
         /\ out' = <<Msg("init", "", FALSE, <<>>)>>
  /\ tickLog' = <<>>
  /\ UNCHANGED <<status, npcs, bullets, timer, events, shotsFired, nMoves,
                 nMarks>>

\* ------------------------------------------------------------------------
\* socket.on("startGame")
\* ------------------------------------------------------------------------
\* The startGame handler without the status test.
startAccepted_AnyStatus(id) ==
  /\ id \in DOMAIN players
  /\ players[id].host
  /\ Cardinality(DOMAIN players) >= 2

\* p && p.host && status !== "PLAYING", and at least 2 players.
startAccepted(id) ==
  /\ id \in DOMAIN players
  /\ players[id].host
  /\ status # "PLAYING"
  /\ Cardinality(DOMAIN players) >= 2

\* playerSpots, npcSpots: the draws of randomPos this start can make.
StartGame(id, playerSpots, npcSpots) ==
  /\ UNCHANGED notAmmo
  /\ tickLog' = <<>>
  /\ lastHandler' = "startGame"
  /\ IF startAccepted(id)
     THEN \E npcPos \in [1..totalNPCs(Cardinality(DOMAIN players)) -> npcSpots],
             playerPos \in [DOMAIN players -> playerSpots],
             hunterId \in DOMAIN players :
            /\ npcs' = resetNpcs(npcPos)
            /\ bullets' = <<>>
            /\ timer' = gameDurationTicks
            /\ events' = <<>>
            /\ status' = "PLAYING"
            /\ players' = resetPlayers(players, playerPos, hunterId)
            /\ out' = <<Msg("gameStart", "", FALSE, <<>>)>>
            /\ shotsFired' = 0
            /\ nMoves' = 0
            /\ nMarks' = 0
            /\ UNCHANGED nextSocket
     ELSE /\ out' = <<>>
          /\ UNCHANGED <<status, players, npcs, bullets, timer, events,
                         nextSocket, shotsFired, nMoves, nMarks>>

\* ------------------------------------------------------------------------
\* socket.on("disconnect")
\* ------------------------------------------------------------------------
\* The disconnect handler with `< 1` for `< 2` (line 196).
tooFewPlayers_None(ps) == Cardinality(DOMAIN ps) < 1

\* Object.keys(gameState.players).length < 2
tooFewPlayers(ps) == Cardinality(DOMAIN ps) < 2

\* The disconnect handler without the host hand-over (line 195).
removePlayer_NoHandover(ps, id) == [k \in DOMAIN ps \ {id} |-> ps[k]]

removePlayer(ps, id) ==
  LET rest == [k \in DOMAIN ps \ {id} |-> ps[k]]
  IN  IF DOMAIN rest = {} THEN rest
      ELSE [rest EXCEPT ![FirstKey(rest)].host = TRUE]

Disconnect(id) ==
  /\ UNCHANGED notAmmo
  /\ id \in DOMAIN players
  /\ lastHandler' = "disconnect"
  /\ players' = removePlayer(players, id)
  /\ IF status = "PLAYING" /\ tooFewPlayers(players')
     THEN /\ status' = "ENDED"
          /\ out' = <<Msg("gameOver", "NOT ENOUGH PLAYERS", FALSE, <<>>)>>
     ELSE /\ status' = status
          /\ out' = <<>>
  /\ tickLog' = <<>>
  /\ UNCHANGED <<npcs, bullets, timer, events, nextSocket, shotsFired,
                 nMoves, nMarks>>

\* ------------------------------------------------------------------------
\* socket.on("input")
\* ------------------------------------------------------------------------
\* (d / len) * currentSpeed * (1 / TICK_RATE), len = Math.sqrt(dx*dx + dy*dy),
\* truncated toward zero; exact when the direction lies on an axis.
normStep(d, lenSq, speed) ==
  Sign(d) * ((Abs(d) * speed * 100) \div ISqrt(lenSq * 10000))

\* The handler without the clamp of p.x (line 141).
clampX_None(x) == x

clampX(x) == IF x < U(20) THEN U(20)
             ELSE IF x > U(GAME_WIDTH - 20) THEN U(GAME_WIDTH - 20) ELSE x

clampY(y) == IF y < U(20) THEN U(20)
             ELSE IF y > U(GAME_HEIGHT - 20) THEN U(GAME_HEIGHT - 20) ELSE y

\* Stamina & speed, movement, clamping (lines 113-142).
movePlayer(p, input) ==
  LET slot == IF input.slot # 0 THEN input.slot ELSE p.activeSlot
      base == IF p.role = "hunter" THEN (npcSpeed * 11) \div 10 ELSE npcSpeed
      isMoving == input.dx # 0 \/ input.dy # 0
      sprints == input.sprint /\ p.stamina > 0 /\ isMoving
      currentSpeed == IF sprints THEN sprintSpeed ELSE base
      stamina == IF sprints THEN Max(0, p.stamina - 3)
                 ELSE Min(200, p.stamina + 1)
      lenSq == input.dx * input.dx + input.dy * input.dy
      x == IF isMoving /\ lenSq > 0
           THEN p.x + normStep(input.dx, lenSq, currentSpeed) ELSE p.x
      y == IF isMoving /\ lenSq > 0
           THEN p.y + normStep(input.dy, lenSq, currentSpeed) ELSE p.y
  IN  [p EXCEPT !.activeSlot = slot, !.stamina = stamina,
                !.x = clampX(x), !.y = clampY(y)]

\* Math.cos(angle) * 1000 and Math.sin(angle) * 1000 for
\* angle = Math.atan2(ddy, ddx), truncated toward zero; atan2(0, 0) = 0.
\* Long vectors are scaled down first so that the squares fit.
velocity(ddx, ddy) ==
  IF ddx = 0 /\ ddy = 0 THEN [vx |-> 1000, vy |-> 0]
  ELSE LET k == (Max(Abs(ddx), Abs(ddy)) \div 30000) + 1
           sx == Sign(ddx) * (Abs(ddx) \div k)
           sy == Sign(ddy) * (Abs(ddy) \div k)
           dist == ISqrt(sx * sx + sy * sy)
       IN  [vx |-> Sign(sx) * ((1000 * Abs(sx)) \div dist),
            vy |-> Sign(sy) * ((1000 * Abs(sy)) \div dist)]

NewBullet(p, pid, input, n) ==
  LET v == velocity(input.aimX - p.x, input.aimY - p.y)
  IN  [id |-> n, x |-> p.x, y |-> p.y, vx |-> v.vx, vy |-> v.vy,
       life |-> bulletLifeTicks, owner |-> pid,
       ox |-> p.x, oy |-> p.y, aimX |-> input.aimX, aimY |-> input.aimY]

\* id numbers the bullets of a match; ox, oy, aimX, aimY remember where the
\* bullet was fired from and at.  The source keeps none of the five.

\* (mark + 1) % 4 on a JavaScript value.
nextMark(m) == IF m \in 0..3 THEN (m + 1) % 4 ELSE NaN

\* The NPC loop of the marking without the `!n.dead` test.
markedNpc_AnyNpc(ns, input) ==
  LET hit == {i \in DOMAIN ns :
                WithinSq(ns[i].x - input.aimX, ns[i].y - input.aimY, 60)}
  IN  IF hit = {} THEN 0 ELSE CHOOSE i \in hit : \A j \in hit : i <= j

\* Slot 2: the first live NPC within the click radius of the aim point,
\* 0 when there is none (lines 160-168).
markedNpc(ns, input) ==
  LET hit == {i \in DOMAIN ns :
                /\ ~ns[i].dead
                /\ WithinSq(ns[i].x - input.aimX, ns[i].y - input.aimY, 60)}
  IN  IF hit = {} THEN 0 ELSE CHOOSE i \in hit : \A j \in hit : i <= j

\* Slot 2: the first live hider within the click radius, 0 when there is
\* none (lines 170-178).
markedPlayer(ps, input) ==
  LET hit == {k \in DOMAIN ps :
                /\ ps[k].role = "hider"
                /\ ~ps[k].dead
                /\ WithinSq(ps[k].x - input.aimX, ps[k].y - input.aimY, 60)}
  IN  IF hit = {} THEN 0 ELSE CHOOSE k \in hit : \A j \in hit : k <= j

\* Inputs the clients send.  Aim points are the exact position of some
\* hider.
AimPoints ==
  {<<players[k].x, players[k].y>> : k \in {j \in DOMAIN players :
                                             players[j].role = "hider"}}

MoveInputs ==
  {[slot |-> 0, dx |-> -2, dy |-> 2, sprint |-> TRUE, shoot |-> FALSE,
    aimX |-> 0, aimY |-> 0],
   [slot |-> 0, dx |-> 1, dy |-> 0, sprint |-> FALSE, shoot |-> FALSE,
    aimX |-> 0, aimY |-> 0]}

ShootInputs ==
  {[slot |-> sl, dx |-> 0, dy |-> 0, sprint |-> FALSE, shoot |-> TRUE,
    aimX |-> a[1], aimY |-> a[2]] : sl \in {0, 1, 2}, a \in AimPoints}

\* Shoot with the slot left as it is (slot 1 after connection).
FireInputs == {i \in ShootInputs : i.slot = 0}

\* Shoot with slot 2 selected.
MarkInputs == {i \in ShootInputs : i.slot = 2}

\* The player loop of the marking run whatever the NPC loop found.
playerLoopRuns_Always(mn) == TRUE

\* if (!hitFound), mn being the NPC the NPC loop marked (0 for none).
playerLoopRuns(mn) == mn = 0

\* The input guard without the `p.dead` test.
inputIgnored_DeadAllowed(id) ==
  id \notin DOMAIN players \/ status # "PLAYING"

\* if (!p || p.dead || gameState.status !== "PLAYING") return;
inputIgnored(id) ==
  id \notin DOMAIN players \/ players[id].dead \/ status # "PLAYING"

\* The shot branch of the input handler (lines 144-145): a hunter with the
\* gun selected and ammunition left.
canFire_NoAmmoCheck(p, input) ==
  input.shoot /\ p.role = "hunter" /\ p.activeSlot = 1

canFire(p, input) ==
  /\ input.shoot /\ p.role = "hunter"
  /\ p.activeSlot = 1 /\ p.ammo # Undefined
  /\ p.ammo > 0

Input(id, input) ==
  /\ UNCHANGED notAmmo
  /\ id \in 1..nextSocket
  /\ lastHandler' = "input"
  /\ tickLog' = <<>>
  /\ out' = <<>>
  /\ IF inputIgnored(id)
     THEN UNCHANGED <<status, players, npcs, bullets, timer, events,
                      nextSocket, shotsFired, nMoves, nMarks>>
     ELSE /\ (input.dx # 0 \/ input.dy # 0) => nMoves < MaxMoves
          /\ nMoves' = IF input.dx # 0 \/ input.dy # 0 THEN nMoves + 1
                       ELSE nMoves
          /\ LET p == movePlayer(players[id], input)
                 fires == canFire(p, input)
                 marks == input.shoot /\ p.role = "hunter" /\ ~fires
                            /\ p.activeSlot = 2
                 mn == IF marks THEN markedNpc(npcs, input) ELSE 0
                 moved == [players EXCEPT ![id] = p]
                 mp == IF marks /\ playerLoopRuns(mn)
                       THEN markedPlayer(moved, input)
                       ELSE 0
             IN  /\ (mn # 0 \/ mp # 0) => nMarks < MaxMarks
                 /\ nMarks' = IF mn # 0 \/ mp # 0 THEN nMarks + 1 ELSE nMarks
                 /\ players' =
                      IF fires
                      THEN [moved EXCEPT ![id].ammo = p.ammo - 1]
                      ELSE IF mp # 0
                      THEN [moved EXCEPT ![mp].mark = nextMark(moved[mp].mark)]
                      ELSE moved
                 /\ bullets' =
                      IF fires
                      THEN Append(bullets, NewBullet(p, id, input, shotsFired + 1))
                      ELSE bullets
                 /\ shotsFired' = IF fires THEN shotsFired + 1 ELSE shotsFired
                 /\ events' = IF fires THEN Append(events, Ev("sound", "shoot"))
                              ELSE events
                 /\ npcs' = IF mn # 0
                            THEN [npcs EXCEPT ![mn].mark = nextMark(npcs[mn].mark)]
                            ELSE npcs
          /\ UNCHANGED <<status, timer, nextSocket>>

\* ------------------------------------------------------------------------
\* setInterval tick: NPC logic (lines 208-242)
\* ------------------------------------------------------------------------
\* Math.random draws of one NPC: the new move timer (0.5 s to 2.5 s in the
\* source, scaled down with the match duration) and the new intent.  The
\* 20 % branch gives <<0, 0, FALSE>>.
NpcMoveTimers == {3}
Still == <<0, 0, FALSE>>
NpcIntents == {<<-1, 1, TRUE>>}
NpcDraws(intents) ==
  {[moveTimer |-> t, moveX |-> m[1], moveY |-> m[2], sprinting |-> m[3]] :
     t \in NpcMoveTimers, m \in intents}
NoDraw == [moveTimer |-> 0, moveX |-> 0, moveY |-> 0, sprinting |-> FALSE]

\* n.moveX * speed * dMult * dt, dMult = 0.7071 on a diagonal.
npcStep(m, diagonal, speed) ==
  IF diagonal THEN m * ((speed * 7071) \div 10000) ELSE m * speed

npcBoundsX(n) ==
  IF n.x < U(20) THEN [n EXCEPT !.x = U(20), !.moveX = 1]
  ELSE IF n.x > U(GAME_WIDTH - 20)
       THEN [n EXCEPT !.x = U(GAME_WIDTH - 20), !.moveX = -1]
       ELSE n

npcBoundsY(n) ==
  IF n.y < U(20) THEN [n EXCEPT !.y = U(20), !.moveY = 1]
  ELSE IF n.y > U(GAME_HEIGHT - 20)
       THEN [n EXCEPT !.y = U(GAME_HEIGHT - 20), !.moveY = -1]
       ELSE n

npcUpdate(n, draw) ==
  IF n.dead THEN n
  ELSE LET n1 == IF n.moveTimer <= 0
                 THEN [n EXCEPT !.moveTimer = draw.moveTimer,
                                !.moveX = draw.moveX, !.moveY = draw.moveY,
                                !.sprinting = draw.sprinting]
                 ELSE n
           n2 == [n1 EXCEPT !.moveTimer = n1.moveTimer - 1]
           diagonal == n2.moveX # 0 /\ n2.moveY # 0
           speed == IF n2.sprinting THEN sprintSpeed ELSE npcSpeed
           n3 == IF n2.moveX # 0 \/ n2.moveY # 0
                 THEN [n2 EXCEPT !.x = n2.x + npcStep(n2.moveX, diagonal, speed),
                                 !.y = n2.y + npcStep(n2.moveY, diagonal, speed)]
                 ELSE n2
       IN  npcBoundsY(npcBoundsX(n3))

\* The draws a tick can make: one for every live NPC whose timer ran out.
\* The NPCs that redraw in one tick all get the same draw, which keeps the
\* number of draws independent of the number of NPCs.
TickDraws(intents) ==
  {[i \in DOMAIN npcs |->
      IF npcs[i].dead \/ npcs[i].moveTimer > 0 THEN NoDraw ELSE c] :
     c \in NpcDraws(intents)}

\* ------------------------------------------------------------------------
\* setInterval tick: bullets and collisions (lines 244-296)
\* ------------------------------------------------------------------------
RemoveAt(s, i) == SubSeq(s, 1, i - 1) \o SubSeq(s, i + 1, Len(s))

\* Live NPCs within the hit radius of bullet b.
npcsInRange(ns, b) ==
  {j \in DOMAIN ns : ~ns[j].dead /\ WithinSq(ns[j].x - b.x, ns[j].y - b.y, 25)}

\* Live hiders within the hit radius of bullet b.
hidersInRange(ps, b) ==
  {k \in DOMAIN ps : /\ ps[k].role = "hider"
                     /\ ~ps[k].dead
                     /\ WithinSq(ps[k].x - b.x, ps[k].y - b.y, 25)}

\* The NPC loop without its `break` (line 268): every NPC in range dies.
npcsHit_All(ns, b) == npcsInRange(ns, b)

\* The NPCs the NPC loop marks dead: it breaks at the first one in range.
npcsHit(ns, b) ==
  LET hit == npcsInRange(ns, b)
  IN  IF hit = {} THEN {} ELSE {CHOOSE j \in hit : \A k \in hit : j <= k}

\* The hiders the player loop marks dead: it breaks at the first one.
playersHit(ps, b) ==
  LET hit == hidersInRange(ps, b)
  IN  IF hit = {} THEN {} ELSE {CHOOSE j \in hit : \A k \in hit : j <= k}

\* `if (b.life < 0)` instead of `<=`.
expired_Late(b) == b.life < 0

\* if (b.life <= 0) after the decrement (line 252).
expired(b) == b.life <= 0

\* The player loop run whatever the NPC loop did.
playersChecked_Always(nk) == TRUE

\* Is the player loop reached after the NPC loop marked nk dead?  The NPC
\* hit sets b.life = 0 and the bullet is spliced before the player loop.
playersChecked(nk) == nk = {}

\* What one iteration did, read off the states before and after it.
LogEntry(b, before, st0, st1, nin, hin) ==
  [bullet |-> b, lifeBefore |-> before,
   tested |-> ~expired(b),
   npcsNear |-> nin, hidersNear |-> hin,
   npcsKilled |-> {j \in DOMAIN st0.npcs :
                     ~st0.npcs[j].dead /\ st1.npcs[j].dead},
   playersKilled |-> {k \in DOMAIN st0.players :
                        ~st0.players[k].dead /\ st1.players[k].dead},
   removed |-> Len(st1.bullets) < Len(st0.bullets)]

\* One iteration of the bullet loop, for the bullet at index i.
\* st = [npcs, players, bullets, events, log].
bulletStep(st, i) ==
  LET b0 == st.bullets[i]
      b == [b0 EXCEPT !.x = b0.x + b0.vx, !.y = b0.y + b0.vy,
                      !.life = b0.life - 1]
      nin == IF expired(b) THEN {} ELSE npcsInRange(st.npcs, b)
      hin == IF expired(b) THEN {} ELSE hidersInRange(st.players, b)
      nk == IF expired(b) THEN {} ELSE npcsHit(st.npcs, b)
      pk == IF expired(b) \/ ~playersChecked(nk) THEN {}
            ELSE playersHit(st.players, b)
      st1 == [st EXCEPT
                !.npcs = [j \in DOMAIN st.npcs |->
                            IF j \in nk THEN [st.npcs[j] EXCEPT !.dead = TRUE]
                            ELSE st.npcs[j]],
                !.players = [k \in DOMAIN st.players |->
                               IF k \in pk
                               THEN [st.players[k] EXCEPT !.dead = TRUE]
                               ELSE st.players[k]],
                !.bullets = IF expired(b) \/ nk # {} \/ pk # {}
                            THEN RemoveAt(st.bullets, i)
                            ELSE [st.bullets EXCEPT ![i] = b],
                !.events = st.events
                             \o (IF nk # {}
                                 THEN <<Ev("kill", "npc"),
                                        Ev("msg", "CIVILIAN CASUALTY"),
                                        Ev("shake", "10")>>
                                 ELSE <<>>)
                             \o (IF pk # {}
                                 THEN <<Ev("kill", "player"),
                                        Ev("msg", "TARGET ELIMINATED"),
                                        Ev("shake", "20")>>
                                 ELSE <<>>)]
  IN  [st1 EXCEPT !.log = Append(st.log,
                            LogEntry(b, b0.life, st, st1, nin, hin))]

\* for (let i = gameState.bullets.length - 1; i >= 0; i--)
\* The state after one iteration is bound to s1, the one value the rest of
\* the loop works on.
RECURSIVE bulletLoop(_, _)
bulletLoop(st, i) ==
  IF i = 0 THEN st
  ELSE CHOOSE r \in {bulletLoop(s1, i - 1) : s1 \in {bulletStep(st, i)}} : TRUE

\* ------------------------------------------------------------------------
\* setInterval tick: win logic (lines 298-318)
\* ------------------------------------------------------------------------
livingHiders(ps) == {k \in DOMAIN ps : ps[k].role = "hider" /\ ~ps[k].dead}
someHider(ps) == \E k \in DOMAIN ps : ps[k].role = "hider"
hunters(ps) == {k \in DOMAIN ps : ps[k].role = "hunter"}

\* allPlayers.find(p => p.role === "hunter"): the first one, 0 when none.
hunterOf(ps) ==
  IF hunters(ps) = {} THEN 0
  ELSE CHOOSE k \in hunters(ps) : \A j \in hunters(ps) : k <= j

NoReason == "null"

\* The win logic with the timer branch tested first.
gameOverReason_TimerFirst(ps, t, bs) ==
  IF t <= 0 THEN "TIME EXPIRED"
  ELSE IF livingHiders(ps) = {} /\ someHider(ps) THEN "ALL TARGETS ELIMINATED"
  ELSE IF /\ hunterOf(ps) # 0
          /\ ps[hunterOf(ps)].ammo # Undefined
          /\ ps[hunterOf(ps)].ammo <= 0
          /\ bs = <<>>
       THEN "OUT OF AMMO"
  ELSE NoReason

\* The win logic without the ammo branch.
gameOverReason_NoAmmoRule(ps, t, bs) ==
  IF livingHiders(ps) = {} /\ someHider(ps) THEN "ALL TARGETS ELIMINATED"
  ELSE IF t <= 0 THEN "TIME EXPIRED"
  ELSE NoReason

\* The win logic whose ammo branch does not look at the bullet list.
gameOverReason_IgnoresBullets(ps, t, bs) ==
  IF livingHiders(ps) = {} /\ someHider(ps) THEN "ALL TARGETS ELIMINATED"
  ELSE IF t <= 0 THEN "TIME EXPIRED"
  ELSE IF /\ hunterOf(ps) # 0
          /\ ps[hunterOf(ps)].ammo # Undefined
          /\ ps[hunterOf(ps)].ammo <= 0
       THEN "OUT OF AMMO"
  ELSE NoReason

gameOverReason(ps, t, bs) ==
  IF livingHiders(ps) = {} /\ someHider(ps) THEN "ALL TARGETS ELIMINATED"
  ELSE IF t <= 0 THEN "TIME EXPIRED"
  ELSE IF /\ hunterOf(ps) # 0
          /\ ps[hunterOf(ps)].ammo # Undefined
          /\ ps[hunterOf(ps)].ammo <= 0
          /\ bs = <<>>
       THEN "OUT OF AMMO"
  ELSE NoReason

hunterWonFor(reason) == reason = "ALL TARGETS ELIMINATED"

\* The tick that never emits gameOver.
gameOverEmit_Silent(reason) == <<>>

\* if (gameOverReason) io.emit("gameOver", { reason, hunterWon })
gameOverEmit(reason) ==
  IF reason # NoReason
  THEN <<Msg("gameOver", reason, hunterWonFor(reason), <<>>)>>
  ELSE <<>>

\* ------------------------------------------------------------------------
\* setInterval tick (lines 203-336)
\* ------------------------------------------------------------------------
\* The tick guarded by `status !== "LOBBY"`.
tickRuns_NotLobby == status # "LOBBY"

\* if (gameState.status === "PLAYING") (line 204)
tickRuns == status = "PLAYING"

\* A tick that leaves the timer alone.
timerStep_Frozen(t) == t

\* gameState.timer -= dt (line 206), in ticks.
timerStep(t) == t - 1

Tick(intents) ==
  /\ UNCHANGED notAmmo
  /\ lastHandler' = "tick"
  /\ IF tickRuns
     THEN \E draw \in TickDraws(intents) :
          \E ns \in {[i \in DOMAIN npcs |-> npcUpdate(npcs[i], draw[i])]} :
          \E st \in {bulletLoop([npcs |-> ns, players |-> players,
                                  bullets |-> bullets, events |-> events,
                                  log |-> <<>>], Len(bullets))} :
            LET t == timerStep(timer)
                reason == gameOverReason(st.players, t, st.bullets)
                over == gameOverEmit(reason)
            IN  /\ timer' = t
                /\ npcs' = st.npcs
                /\ players' = st.players
                /\ bullets' = st.bullets
                /\ tickLog' = st.log
                /\ status' = IF reason # NoReason THEN "ENDED" ELSE status
                /\ out' = over \o <<Msg("tick", "", FALSE, st.events)>>
                /\ events' = <<>>
                /\ UNCHANGED <<nextSocket, shotsFired, nMoves, nMarks>>
     ELSE /\ out' = <<Msg("tick", "", FALSE, events)>>
          /\ events' = <<>>
          /\ tickLog' = <<>>
          /\ UNCHANGED <<status, players, npcs, bullets, timer, nextSocket,
                         shotsFired, nMoves, nMarks>>

\* ========================================================================
\* The server with walls (src/server.js lines 342-713)
\* ========================================================================
PLAYER_RADIUS == 20
wallCount == 15
wHunterAmmo == 6

\* gameTimer = 180 seconds, scaled down to a few ticks.
gameTimerTicks == 3
\* spawnNPCs(40), scaled down.
spawnCount == 1
\* Shots the inputs fire altogether.
MaxShots == 2
\* The sockets that connect to this server.
WSockets == {1, 2}

\* generateWalls: the draws put the walls in a column right of the spawn
\* points.
WallLayout ==
  [i \in 1..wallCount |->
     [x |-> U(190), y |-> U(100) + (i - 1) * U(110), w |-> U(50), h |-> U(100)]]

\* checkWallCollision(x, y)
checkWallCollision(ws, x, y) ==
  \E i \in DOMAIN ws :
    /\ x + U(PLAYER_RADIUS) > ws[i].x
    /\ x - U(PLAYER_RADIUS) < ws[i].x + ws[i].w
    /\ y + U(PLAYER_RADIUS) > ws[i].y
    /\ y - U(PLAYER_RADIUS) < ws[i].y + ws[i].h

\* getSafeSpawn: two points a whole number of bullet steps apart, both clear
\* of the walls.
WSpotA == [x |-> 3000, y |-> U(150)]
WSpotB == [x |-> 5000, y |-> U(150)]
getSafeSpawn(ws) == {s \in {WSpotA, WSpotB} : ~checkWallCollision(ws, s.x, s.y)}

\* NPC idle time draws (Math.random() * 5 and Math.random() * 2 + 1 seconds),
\* in ticks.
IdleDraws == {2}

\* spawnNPCs(count)
spawnNPCs(npcPos, idle) ==
  [i \in DOMAIN npcPos |->
     [x |-> npcPos[i].x, y |-> npcPos[i].y, tx |-> npcPos[i].x,
      ty |-> npcPos[i].y, dead |-> FALSE, idleTime |-> idle, mark |-> 0]]

\* The player record of io.on('connection').
WNewPlayer(spawn, isFirst) ==
  [x |-> spawn.x, y |-> spawn.y, dead |-> FALSE, role |-> "hider",
   host |-> isFirst, ammo |-> 0, stamina |-> 100, mark |-> Undefined]

\* io.on('connection')
WConnection(spawns) ==
  /\ UNCHANGED notWalls
  /\ wNextSocket + 1 \in WSockets
  /\ wLast' = "connection"
  /\ \E spawn \in spawns \cap getSafeSpawn(walls) :
       LET id == wNextSocket + 1
       IN  /\ wPlayers' = [k \in DOMAIN wPlayers \cup {id} |->
                             IF k = id
                             THEN WNewPlayer(spawn, DOMAIN wPlayers = {})
                             ELSE wPlayers[k]]
           /\ wNextSocket' = id
  /\ wOut' = <<Msg("init", "", FALSE, <<>>)>>
  /\ wHadHider' = (wHadHider \/ gameRunning)
  /\ UNCHANGED <<wNpcs, wBullets, walls, gameTimer, gameRunning,
                 gameInterval, wShots>>

\* stopGame()
stopGame(st) == [st EXCEPT !.gameRunning = FALSE, !.gameInterval = FALSE]

\* endGame(hunterWon, reason)
endGame(st, hunterWon, reason) ==
  [stopGame(st) EXCEPT
     !.out = Append(st.out, Msg("gameOver", reason, hunterWon, <<>>))]

\* Movement of the input handler (lines 467-494) for an input that does
\* not sprint: each axis moves unless the move runs into a wall.
wMove(p, data, ws) ==
  LET speed == IF p.role = "hunter" THEN (170 * 11) \div 10 ELSE 170
      lenSq == data.dx * data.dx + data.dy * data.dy
      moveX == normStep(data.dx, lenSq, speed)
      moveY == normStep(data.dy, lenSq, speed)
      x1 == IF ~checkWallCollision(ws, p.x + moveX, p.y) THEN p.x + moveX
            ELSE p.x
      y1 == IF ~checkWallCollision(ws, x1, p.y + moveY) THEN p.y + moveY
            ELSE p.y
  IN  [p EXCEPT !.x = Max(U(20), Min(U(GAME_WIDTH - 20), x1)),
                !.y = Max(U(20), Min(U(GAME_HEIGHT - 20), y1))]

\* target.mark = (target.mark || 0) + 1; if (target.mark > 3) target.mark = 0
wNextMark(m) ==
  LET m1 == (IF m = Undefined THEN 0 ELSE m) + 1
  IN  IF m1 > 3 THEN 0 ELSE m1

\* Inputs the clients send: no movement, a shot or a mark aimed at the
\* position of another player.
WInputs(id) ==
  {[slot |-> sl, dx |-> 0, dy |-> 0, sprint |-> FALSE, shoot |-> TRUE,
    aimX |-> wPlayers[k].x, aimY |-> wPlayers[k].y] :
     sl \in {1}, k \in DOMAIN wPlayers \ {id}}

\* socket.on('input')
WInput(id, data) ==
  /\ UNCHANGED notWalls
  /\ id \in 1..wNextSocket
  /\ wLast' = "input"
  /\ IF id \notin DOMAIN wPlayers
     THEN /\ wOut' = <<>>
          /\ UNCHANGED <<wPlayers, wNpcs, wBullets, wShots>>
     ELSE IF wPlayers[id].dead
     THEN /\ wOut' = <<>>
          /\ UNCHANGED <<wPlayers, wNpcs, wBullets, wShots>>
     ELSE LET p == IF gameRunning /\ (data.dx # 0 \/ data.dy # 0)
                   THEN wMove(wPlayers[id], data, walls)
                   ELSE wPlayers[id]
              fires == /\ data.shoot /\ p.role = "hunter"
                       /\ p.ammo > 0 /\ data.slot = 1
              marks == data.shoot /\ p.role = "hunter" /\ data.slot = 2
              moved == [wPlayers EXCEPT ![id] =
                          IF fires THEN [p EXCEPT !.ammo = p.ammo - 1] ELSE p]
              v == velocity(data.aimX - p.x, data.aimY - p.y)
          IN  /\ fires => wShots < MaxShots
              /\ wShots' = IF fires THEN wShots + 1 ELSE wShots
              /\ wBullets' =
                   IF fires
                   THEN Append(wBullets, [x |-> p.x, y |-> p.y, vx |-> v.vx,
                                          vy |-> v.vy, owner |-> id])
                   ELSE wBullets
              /\ wOut' = IF fires THEN <<Msg("events", "", FALSE,
                                             <<Ev("shake", "5")>>)>>
                         ELSE <<>>
              /\ wNpcs' =
                   IF marks
                   THEN [j \in DOMAIN wNpcs |->
                           IF /\ ~wNpcs[j].dead
                              /\ WithinSq(wNpcs[j].x - data.aimX,
                                          wNpcs[j].y - data.aimY, 30)
                           THEN [wNpcs[j] EXCEPT
                                   !.mark = (wNpcs[j].mark + 1) % 4]
                           ELSE wNpcs[j]]
                   ELSE wNpcs
              /\ wPlayers' =
                   IF marks
                   THEN [k \in DOMAIN moved |->
                           IF /\ k # id
                              /\ ~moved[k].dead
                              /\ WithinSq(moved[k].x - data.aimX,
                                          moved[k].y - data.aimY, 30)
                           THEN [moved[k] EXCEPT
                                   !.mark = wNextMark(moved[k].mark)]
                           ELSE moved[k]]
                   ELSE moved
  /\ UNCHANGED <<walls, gameTimer, gameRunning, gameInterval, wNextSocket,
                 wHadHider>>

\* if (players[socket.id] && players[socket.id].host && !gameRunning)
wStartAccepted(id) ==
  IF id \in DOMAIN wPlayers THEN wPlayers[id].host /\ ~gameRunning ELSE FALSE

\* startGame(): roles, ammunition and respawn (lines 571-585).
assignRoles(ps, hunterId, pos) ==
  [k \in DOMAIN ps |->
     [ps[k] EXCEPT !.role = IF k = hunterId THEN "hunter" ELSE "hider",
                   !.dead = FALSE,
                   !.ammo = IF k = hunterId THEN wHunterAmmo ELSE 0,
                   !.stamina = 100,
                   !.mark = 0,
                   !.x = pos[k].x,
                   !.y = pos[k].y]]

\* socket.on('startGame') and startGame()
WStartGame(id, spawns, npcSpawns) ==
  /\ UNCHANGED notWalls
  /\ id \in 1..wNextSocket
  /\ wLast' = "startGame"
  /\ IF wStartAccepted(id)
     THEN \E hunterId \in DOMAIN wPlayers :
          \E pos \in [DOMAIN wPlayers -> spawns \cap getSafeSpawn(WallLayout)] :
          \E npcPos \in [1..spawnCount -> npcSpawns \cap getSafeSpawn(WallLayout)] :
          \E idle \in IdleDraws :
            /\ gameRunning' = TRUE
            /\ gameTimer' = gameTimerTicks
            /\ walls' = WallLayout
            /\ wPlayers' = assignRoles(wPlayers, hunterId, pos)
            /\ wNpcs' = spawnNPCs(npcPos, idle)
            /\ wOut' = <<Msg("init", "", FALSE, <<>>),
                         Msg("gameStart", "", FALSE, <<>>)>>
            /\ gameInterval' = TRUE
            /\ wHadHider' = (Cardinality(DOMAIN wPlayers) > 1)
            /\ UNCHANGED <<wBullets, wNextSocket, wShots>>
     ELSE /\ wOut' = <<>>
          /\ UNCHANGED <<wPlayers, wNpcs, wBullets, walls, gameTimer,
                         gameRunning, gameInterval, wNextSocket, wHadHider,
                         wShots>>

\* socket.on('disconnect')
WDisconnect(id) ==
  /\ UNCHANGED notWalls
  /\ id \in DOMAIN wPlayers
  /\ wLast' = "disconnect"
  /\ LET rest == [k \in DOMAIN wPlayers \ {id} |-> wPlayers[k]]
     IN  IF DOMAIN rest = {}
         THEN /\ wPlayers' = rest
              /\ gameRunning' = FALSE
              /\ gameInterval' = FALSE
         ELSE /\ wPlayers' =
                   IF \E k \in DOMAIN rest : rest[k].host THEN rest
                   ELSE [rest EXCEPT ![FirstKey(rest)].host = TRUE]
              /\ UNCHANGED <<gameRunning, gameInterval>>
  /\ wOut' = <<>>
  /\ UNCHANGED <<wNpcs, wBullets, walls, gameTimer, wNextSocket, wHadHider,
                 wShots>>

\* What an NPC that has arrived and waited draws: a new target
\* (Math.random() < 0.02) or a new idle time.
Targets(ws) == {[go |-> TRUE, dest |-> d, idle |-> 0] : d \in getSafeSpawn(ws)}
Waits == {[go |-> FALSE, dest |-> WSpotA, idle |-> i] : i \in IdleDraws}

\* gameLoop, 3. NPC Logic (lines 619-650), for one NPC.
wNpcUpdate(n, c, ws) ==
  IF n.dead THEN n
  ELSE LET dx == n.tx - n.x
           dy == n.ty - n.y
       IN  IF WithinSq(dx, dy, 5) \/ n.idleTime > 0
           THEN IF n.idleTime > 0
                THEN [n EXCEPT !.idleTime = n.idleTime - 1]
                ELSE IF c.go
                     THEN [n EXCEPT !.tx = c.dest.x, !.ty = c.dest.y]
                     ELSE [n EXCEPT !.idleTime = c.idle]
           ELSE LET v == velocity(dx, dy)
                    moveX == Sign(v.vx) * ((Abs(v.vx) * 170) \div 1000)
                    moveY == Sign(v.vy) * ((Abs(v.vy) * 170) \div 1000)
                    x1 == IF ~checkWallCollision(ws, n.x + moveX, n.y)
                          THEN n.x + moveX ELSE n.x
                    y1 == IF ~checkWallCollision(ws, x1, n.y + moveY)
                          THEN n.y + moveY ELSE n.y
                IN  [n EXCEPT !.x = x1, !.y = y1]

\* gameLoop, 4. Bullet Logic (lines 653-693), for the bullet at index i.
\* st = [players, npcs, bullets, events, out, gameRunning, gameInterval].
wBulletStep(st, i, ws) ==
  LET b0 == st.bullets[i]
      b == [b0 EXCEPT !.x = b0.x + b0.vx, !.y = b0.y + b0.vy]
      wallHit == \/ b.x < 0 \/ b.x > U(GAME_WIDTH)
                 \/ b.y < 0 \/ b.y > U(GAME_HEIGHT)
                 \/ checkWallCollision(ws, b.x, b.y)
      pk == IF wallHit THEN {}
            ELSE {k \in DOMAIN st.players :
                    /\ ~st.players[k].dead
                    /\ k # b.owner
                    /\ WithinSq(st.players[k].x - b.x, st.players[k].y - b.y,
                                PLAYER_RADIUS)}
      nk == IF wallHit \/ pk # {} THEN {}
            ELSE {j \in DOMAIN st.npcs :
                    /\ ~st.npcs[j].dead
                    /\ WithinSq(st.npcs[j].x - b.x, st.npcs[j].y - b.y,
                                PLAYER_RADIUS)}
      hunterDied == \E k \in pk : st.players[k].role = "hunter"
      st1 == [st EXCEPT
                !.players = [k \in DOMAIN st.players |->
                               IF k \in pk
                               THEN [st.players[k] EXCEPT !.dead = TRUE]
                               ELSE st.players[k]],
                !.npcs = [j \in DOMAIN st.npcs |->
                            IF j \in nk THEN [st.npcs[j] EXCEPT !.dead = TRUE]
                            ELSE st.npcs[j]],
                !.bullets = IF wallHit \/ pk # {} \/ nk # {}
                            THEN RemoveAt(st.bullets, i)
                            ELSE [st.bullets EXCEPT ![i] = b],
                !.events = st.events
                             \o [n \in 1..(Cardinality(pk) + Cardinality(nk))
                                   |-> Ev("kill", "")]]
  IN  IF hunterDied THEN endGame(st1, FALSE, "HUNTER DIED") ELSE st1

\* for (let i = bullets.length - 1; i >= 0; i--)
RECURSIVE wBulletLoop(_, _, _)
wBulletLoop(st, i, ws) ==
  IF i = 0 THEN st
  ELSE CHOOSE r \in {wBulletLoop(s1, i - 1, ws) :
                       s1 \in {wBulletStep(st, i, ws)}} : TRUE

\* gameLoop, 1. Timer Logic (lines 608-611)
timerLogic(st) ==
  IF st.gameTimer > 0
  THEN LET st1 == [st EXCEPT !.gameTimer = st.gameTimer - 1]
       IN  IF st1.gameTimer <= 0 THEN endGame(st1, FALSE, "TIME EXPIRED")
           ELSE st1
  ELSE st

\* gameLoop, 2. Check Win Condition (lines 614-617)
winCheck(st) ==
  IF st.gameRunning /\ livingHiders(st.players) = {}
  THEN endGame(st, TRUE, "ALL TARGETS ELIMINATED")
  ELSE st

\* gameLoop: runs while the interval is set.
GameLoop(choices) ==
  /\ UNCHANGED notWalls
  /\ gameInterval
  /\ wLast' = "gameLoop"
  /\ \E c \in choices :
     \E st2 \in {winCheck(timerLogic(
                   [players |-> wPlayers, npcs |-> wNpcs,
                    bullets |-> wBullets, events |-> <<>>, out |-> <<>>,
                    gameTimer |-> gameTimer, gameRunning |-> gameRunning,
                    gameInterval |-> gameInterval]))} :
     \E st3 \in {[st2 EXCEPT !.npcs = [j \in DOMAIN wNpcs |->
                                         wNpcUpdate(wNpcs[j], c, walls)]]} :
     \E st4 \in {wBulletLoop(st3, Len(wBullets), walls)} :
       /\ wPlayers' = st4.players
       /\ wNpcs' = st4.npcs
       /\ wBullets' = st4.bullets
       /\ gameTimer' = st4.gameTimer
       /\ gameRunning' = st4.gameRunning
       /\ gameInterval' = st4.gameInterval
       /\ wOut' = Append(st4.out, Msg("tick", "", FALSE, st4.events))
  /\ UNCHANGED <<walls, wNextSocket, wHadHider, wShots>>

\* ========================================================================
\* The first server (src/unnamed/part_000)
\* ========================================================================
playerSpeed == 180
p0NpcSpeed == 180

\* resetGame: the NPC and player records (lines 46-96).
p0NewNpc(pos) ==
  [x |-> pos.x, y |-> pos.y, moveX |-> 0, moveY |-> 0, moveTimer |-> 0,
   dead |-> FALSE]

p0ResetPlayers(ps, playerPos, hunterId) ==
  [id \in DOMAIN ps |->
     [ps[id] EXCEPT !.x = playerPos[id].x, !.y = playerPos[id].y,
                    !.dead = FALSE,
                    !.ammo = IF id = hunterId THEN hunterAmmo ELSE 0,
                    !.role = IF id = hunterId THEN "hunter" ELSE "hider"]]

\* The player record of io.on("connection").
p0NewPlayer(isFirst) ==
  [x |-> U(GAME_WIDTH) \div 2, y |-> U(GAME_HEIGHT) \div 2, role |-> "hider",
   dead |-> FALSE, host |-> isFirst, ammo |-> Undefined]

\* io.on("connection")
P0Connection ==
  /\ UNCHANGED notBase
  /\ p0NextSocket + 1 \in Sockets
  /\ p0Last' = "connection"
  /\ LET id == p0NextSocket + 1
     IN  /\ p0Players' = [k \in DOMAIN p0Players \cup {id} |->
                            IF k = id THEN p0NewPlayer(DOMAIN p0Players = {})
                            ELSE p0Players[k]]
         /\ p0NextSocket' = id
  /\ p0Out' = <<Msg("init", "", FALSE, <<>>)>>
  /\ p0Log' = <<>>
  /\ UNCHANGED <<p0Status, p0Npcs, p0Bullets, p0Timer, p0Events>>

\* if (p && p.host && gameState.status !== "PLAYING") and the player count
\* test (lines 155-158).
p0StartAccepted(id) ==
  IF id \in DOMAIN p0Players
  THEN /\ p0Players[id].host
       /\ p0Status # "PLAYING"
       /\ Cardinality(DOMAIN p0Players) >= 2
  ELSE FALSE

\* socket.on("startGame") and resetGame
P0StartGame(id, playerSpots, npcSpots) ==
  /\ UNCHANGED notBase
  /\ id \in 1..p0NextSocket
  /\ p0Last' = "startGame"
  /\ p0Log' = <<>>
  /\ IF p0StartAccepted(id)
     THEN \E hunterId \in DOMAIN p0Players :
          \E playerPos \in [DOMAIN p0Players -> playerSpots] :
          \E npcPos \in [1..totalNPCs(Cardinality(DOMAIN p0Players)) -> npcSpots] :
            /\ p0Npcs' = [i \in DOMAIN npcPos |-> p0NewNpc(npcPos[i])]
            /\ p0Bullets' = <<>>
            /\ p0Timer' = gameDurationTicks
            /\ p0Events' = <<>>
            /\ p0Status' = "PLAYING"
            /\ p0Players' = p0ResetPlayers(p0Players, playerPos, hunterId)
            /\ p0Out' = <<Msg("gameStart", "", FALSE, <<>>)>>
            /\ UNCHANGED p0NextSocket
     ELSE /\ p0Out' = <<>>
          /\ UNCHANGED <<p0Status, p0Players, p0Npcs, p0Bullets, p0Timer,
                         p0Events, p0NextSocket>>

\* socket.on("disconnect")
P0Disconnect(id) ==
  /\ UNCHANGED notBase
  /\ id \in DOMAIN p0Players
  /\ p0Last' = "disconnect"
  /\ p0Log' = <<>>
  /\ p0Players' = removePlayer(p0Players, id)
  /\ IF p0Status = "PLAYING" /\ Cardinality(DOMAIN p0Players \ {id}) < 2
     THEN /\ p0Status' = "ENDED"
          /\ p0Out' = <<Msg("gameOver", "NOT ENOUGH PLAYERS", FALSE, <<>>)>>
     ELSE /\ p0Out' = <<>>
          /\ UNCHANGED p0Status
  /\ UNCHANGED <<p0Npcs, p0Bullets, p0Timer, p0Events, p0NextSocket>>

\* Movement and boundary checks of the input handler (lines 119-134).
p0Move(p, input) ==
  LET speed == IF p.role = "hunter" THEN (playerSpeed * 11) \div 10
               ELSE playerSpeed
      lenSq == input.dx * input.dx + input.dy * input.dy
      x == IF lenSq > 0 THEN p.x + normStep(input.dx, lenSq, speed) ELSE p.x
      y == IF lenSq > 0 THEN p.y + normStep(input.dy, lenSq, speed) ELSE p.y
  IN  [p EXCEPT !.x = clampX(x), !.y = clampY(y)]

\* Inputs the clients send: a shot aimed at the position of a hider.
P0Inputs ==
  {[dx |-> 0, dy |-> 0, shoot |-> TRUE,
    aimX |-> p0Players[k].x, aimY |-> p0Players[k].y] :
     k \in {j \in DOMAIN p0Players : p0Players[j].role = "hider"}}

\* if (!p || p.dead || gameState.status !== "PLAYING") return;
p0InputIgnored(id) ==
  IF id \in DOMAIN p0Players
  THEN p0Players[id].dead \/ p0Status # "PLAYING"
  ELSE TRUE

\* socket.on("input")
P0Input(id, input) ==
  /\ UNCHANGED notBase
  /\ id \in 1..p0NextSocket
  /\ p0Last' = "input"
  /\ p0Log' = <<>>
  /\ p0Out' = <<>>
  /\ IF p0InputIgnored(id)
     THEN UNCHANGED <<p0Players, p0Bullets, p0Events>>
     ELSE LET p == p0Move(p0Players[id], input)
              fires == /\ input.shoot /\ p.role = "hunter"
                       /\ p.ammo # Undefined /\ p.ammo > 0
              v == velocity(input.aimX - p.x, input.aimY - p.y)
          IN  /\ p0Players' = [p0Players EXCEPT ![id] =
                                 IF fires THEN [p EXCEPT !.ammo = p.ammo - 1]
                                 ELSE p]
              /\ p0Bullets' =
                   IF fires
                   THEN Append(p0Bullets,
                               [x |-> p.x, y |-> p.y, vx |-> v.vx, vy |-> v.vy,
                                life |-> bulletLifeTicks, owner |-> id])
                   ELSE p0Bullets
              /\ p0Events' = IF fires
                             THEN Append(p0Events, Ev("sound", "shoot"))
                             ELSE p0Events
  /\ UNCHANGED <<p0Status, p0Npcs, p0Timer, p0NextSocket>>

\* The draws of an NPC whose timer ran out: the new timer and the keys
\* (the 20 % branch stands still).
P0Still == [moveTimer |-> 3, moveX |-> 0, moveY |-> 0]
P0Draws == {P0Still, [moveTimer |-> 3, moveX |-> -1, moveY |-> 1]}

\* NEW NPC AI (lines 183-220), for one NPC.
p0NpcUpdate(n, draw) ==
  IF n.dead THEN n
  ELSE LET n1 == IF n.moveTimer <= 0
                 THEN [n EXCEPT !.moveTimer = draw.moveTimer,
                                !.moveX = draw.moveX, !.moveY = draw.moveY]
                 ELSE n
           n2 == [n1 EXCEPT !.moveTimer = n1.moveTimer - 1]
           lenSq == n2.moveX * n2.moveX + n2.moveY * n2.moveY
           n3 == IF lenSq > 0
                 THEN [n2 EXCEPT
                         !.x = n2.x + normStep(n2.moveX, lenSq, p0NpcSpeed),
                         !.y = n2.y + normStep(n2.moveY, lenSq, p0NpcSpeed)]
                 ELSE n2
           n4 == IF n3.x < U(20) THEN [n3 EXCEPT !.x = U(20), !.moveX = 1]
                 ELSE n3
           n5 == IF n4.x > U(GAME_WIDTH - 20)
                 THEN [n4 EXCEPT !.x = U(GAME_WIDTH - 20), !.moveX = -1]
                 ELSE n4
           n6 == IF n5.y < U(20) THEN [n5 EXCEPT !.y = U(20), !.moveY = 1]
                 ELSE n5
       IN  IF n6.y > U(GAME_HEIGHT - 20)
           THEN [n6 EXCEPT !.y = U(GAME_HEIGHT - 20), !.moveY = -1]
           ELSE n6

\* The events one bullet pushes: three per NPC it kills, then three per
\* player it kills.
killEvents(n, text, shake) ==
  [i \in 1..(3 * n) |->
     IF i % 3 = 1 THEN Ev("kill", "")
     ELSE IF i % 3 = 2 THEN Ev("msg", text)
     ELSE Ev("shake", shake)]

\* BULLETS & COLLISIONS (lines 223-251), for the bullet at index i.
\* st = [npcs, players, bullets, events, log].
p0BulletStep(st, i) ==
  LET b0 == st.bullets[i]
      b == [b0 EXCEPT !.x = b0.x + b0.vx, !.y = b0.y + b0.vy,
                      !.life = b0.life - 1]
      nk == IF b.life > 0 THEN npcsInRange(st.npcs, b) ELSE {}
      pk == IF b.life > 0 THEN hidersInRange(st.players, b) ELSE {}
      b1 == IF nk # {} \/ pk # {} THEN [b EXCEPT !.life = 0] ELSE b
  IN  [npcs |-> [j \in DOMAIN st.npcs |->
                   IF j \in nk THEN [st.npcs[j] EXCEPT !.dead = TRUE]
                   ELSE st.npcs[j]],
       players |-> [k \in DOMAIN st.players |->
                      IF k \in pk THEN [st.players[k] EXCEPT !.dead = TRUE]
                      ELSE st.players[k]],
       bullets |-> [st.bullets EXCEPT ![i] = b1],
       events |-> st.events
                    \o killEvents(Cardinality(nk), "CIVILIAN CASUALTY", "10")
                    \o killEvents(Cardinality(pk), "TARGET ELIMINATED", "20"),
       log |-> Append(st.log, [bullet |-> b, npcsKilled |-> nk,
                               playersKilled |-> pk])]

\* gameState.bullets.forEach, from the first bullet to the last; n bullets
\* are still to be handled.
RECURSIVE p0BulletLoop(_, _)
p0BulletLoop(st, n) ==
  IF n = 0 THEN st
  ELSE CHOOSE r \in {p0BulletLoop(s1, n - 1) :
                       s1 \in {p0BulletStep(st, Len(st.bullets) - n + 1)}} : TRUE

\* gameState.bullets.filter((b) => b.life > 0)
RECURSIVE liveBullets(_)
liveBullets(bs) ==
  IF bs = <<>> THEN <<>>
  ELSE IF Head(bs).life > 0 THEN <<Head(bs)>> \o liveBullets(Tail(bs))
  ELSE liveBullets(Tail(bs))

\* WIN CONDITIONS (lines 255-270)
p0GameOverReason(ps, t, bs) ==
  IF livingHiders(ps) = {} /\ someHider(ps) THEN "ALL TARGETS ELIMINATED"
  ELSE IF t <= 0 THEN "TIME EXPIRED - HIDERS SURVIVED"
  ELSE IF /\ hunterOf(ps) # 0
          /\ ps[hunterOf(ps)].ammo # Undefined
          /\ ps[hunterOf(ps)].ammo <= 0
          /\ bs = <<>>
       THEN "OUT OF AMMO - HIDERS SURVIVED"
  ELSE NoReason

\* The setInterval tick (lines 177-288).  The NPCs that redraw in one tick
\* all get the same draw.
P0Tick(draws) ==
  /\ UNCHANGED notBase
  /\ p0Last' = "tick"
  /\ IF p0Status = "PLAYING"
     THEN \E draw \in draws :
          \E ns \in {[j \in DOMAIN p0Npcs |-> p0NpcUpdate(p0Npcs[j], draw)]} :
          \E st \in {p0BulletLoop([npcs |-> ns, players |-> p0Players,
                                   bullets |-> p0Bullets, events |-> p0Events,
                                   log |-> <<>>], Len(p0Bullets))} :
            LET t == p0Timer - 1
                bs == liveBullets(st.bullets)
                reason == p0GameOverReason(st.players, t, bs)
            IN  /\ p0Timer' = t
                /\ p0Npcs' = st.npcs
                /\ p0Players' = st.players
                /\ p0Bullets' = bs
                /\ p0Log' = st.log
                /\ p0Status' = IF reason # NoReason THEN "ENDED" ELSE p0Status
                /\ p0Out' = (IF reason # NoReason
                             THEN <<Msg("gameOver", reason,
                                        reason = "ALL TARGETS ELIMINATED",
                                        <<>>)>>
                             ELSE <<>>)
                            \o <<Msg("tick", "", FALSE, st.events)>>
                /\ p0Events' = <<>>
     ELSE /\ p0Out' = <<Msg("tick", "", FALSE, p0Events)>>
          /\ p0Events' = <<>>
          /\ p0Log' = <<>>
          /\ UNCHANGED <<p0Status, p0Players, p0Npcs, p0Bullets, p0Timer>>
  /\ UNCHANGED p0NextSocket

\* ========================================================================
\* The room relay (src/unnamed/part_001)
\* ========================================================================
\* The connections that are ever opened (ws.id) and the codes generateCode
\* draws.
Conns == {1, 2, 3}
Codes == {"AAAA", "BBBB"}
NoRoom == "null"

\* A message handed to ws.send: to whom, its type, the room it was relayed
\* in and the connection whose message caused it.
Sent(to, type, room, from) ==
  [to |-> to, type |-> type, room |-> room, from |-> from]

\* What the last handler was: its connection, the room it worked on and
\* whether it called broadcast().
Last(op, c, room, fanout) ==
  [op |-> op, conn |-> c, room |-> room, fanout |-> fanout]

\* ws.send on a connection that is not open sends nothing.
isOpen(c) == conns[c].state = "open"

\* wss.on("connection")
RConnect ==
  /\ UNCHANGED notRelay
  /\ \E c \in Conns \ DOMAIN conns :
       /\ \A d \in Conns : d < c => d \in DOMAIN conns
       /\ conns' = [k \in DOMAIN conns \cup {c} |->
                      IF k = c
                      THEN [state |-> "open", roomCode |-> NoRoom,
                            isHost |-> FALSE]
                      ELSE conns[k]]
       /\ rLast' = Last("connection", c, NoRoom, FALSE)
  /\ rSent' = {}
  /\ UNCHANGED rooms

\* CREATE ROOM (lines 51-68); generateCode draws a code no room has.
RCreate(c, code) ==
  /\ UNCHANGED notRelay
  /\ c \in DOMAIN conns
  /\ isOpen(c)
  /\ code \in Codes \ DOMAIN rooms
  /\ rooms' = [k \in DOMAIN rooms \cup {code} |->
                 IF k = code THEN [hostId |-> c, clients |-> {c}]
                 ELSE rooms[k]]
  /\ conns' = [conns EXCEPT ![c].roomCode = code, ![c].isHost = TRUE]
  /\ rSent' = {Sent(c, "ROOM_CREATED", code, c)}
  /\ rLast' = Last("create", c, code, FALSE)

\* JOIN ROOM (lines 71-99)
RJoin(c, code) ==
  /\ UNCHANGED notRelay
  /\ c \in DOMAIN conns
  /\ isOpen(c)
  /\ rLast' = Last("join", c, code, FALSE)
  /\ IF code \notin DOMAIN rooms
     THEN /\ rSent' = {Sent(c, "ERROR", code, c)}
          /\ UNCHANGED <<rooms, conns>>
     ELSE LET clients == rooms[code].clients \cup {c}
              host == rooms[code].hostId
          IN  /\ rooms' = [rooms EXCEPT ![code].clients = clients]
              /\ conns' = [conns EXCEPT ![c].roomCode = code]
              /\ rSent' = {Sent(c, "JOINED", code, c)}
                           \cup (IF host \in clients /\ isOpen(host)
                                 THEN {Sent(host, "CLIENT_JOINED", code, c)}
                                 ELSE {})

\* broadcast(room, data, exceptId)
broadcast(code, exceptId) ==
  {Sent(id, "DATA", code, exceptId) :
     id \in {k \in rooms[code].clients : k # exceptId /\ isOpen(k)}}

\* RELAY GAME DATA (lines 102-122)
RRelay(c) ==
  /\ UNCHANGED notRelay
  /\ c \in DOMAIN conns
  /\ isOpen(c)
  /\ LET code == conns[c].roomCode
     IN  IF code = NoRoom
         THEN /\ rSent' = {}
              /\ rLast' = Last("relay", c, NoRoom, FALSE)
         ELSE IF code \notin DOMAIN rooms
         THEN /\ rSent' = {}
              /\ rLast' = Last("relay", c, code, FALSE)
         ELSE IF ~conns[c].isHost
         THEN LET host == rooms[code].hostId
              IN  /\ rSent' = IF host \in rooms[code].clients /\ isOpen(host)
                             THEN {Sent(host, "DATA", code, c)}
                             ELSE {}
                  /\ rLast' = Last("relay", c, code, FALSE)
         ELSE /\ rSent' = broadcast(code, c)
              /\ rLast' = Last("relay", c, code, TRUE)
  /\ UNCHANGED <<rooms, conns>>

\* ws.on("close") (lines 125-140); the connection closed by its client, or
\* by c.close() of an earlier handler.
RClose(c) ==
  /\ UNCHANGED notRelay
  /\ c \in DOMAIN conns
  /\ conns[c].state # "closed"
  /\ LET code == conns[c].roomCode
         closed == [conns EXCEPT ![c].state = "closed"]
     IN  /\ rLast' = Last("close", c, code, FALSE)
         /\ IF code = NoRoom
            THEN /\ conns' = closed
                 /\ rSent' = {}
                 /\ UNCHANGED rooms
            ELSE IF code \notin DOMAIN rooms
            THEN /\ conns' = closed
                 /\ rSent' = {}
                 /\ UNCHANGED rooms
            ELSE LET left == rooms[code].clients \ {c}
                 IN  IF conns[c].isHost
                     THEN /\ rSent' = {Sent(k, "ERROR", code, c) :
                                        k \in {j \in left : isOpen(j)}}
                          /\ conns' = [k \in DOMAIN conns |->
                                         IF k \in left /\ closed[k].state = "open"
                                         THEN [closed[k] EXCEPT
                                                 !.state = "closing"]
                                         ELSE closed[k]]
                          /\ rooms' = [k \in DOMAIN rooms \ {code} |-> rooms[k]]
                     ELSE /\ rSent' = {}
                          /\ conns' = closed
                          /\ rooms' = [rooms EXCEPT ![code].clients = left]

\* ------------------------------------------------------------------------
\* Specification
\* ------------------------------------------------------------------------
Init ==
  /\ status = "LOBBY"
  /\ players = << >>
  /\ npcs = << >>
  /\ bullets = << >>
  /\ timer = 0
  /\ events = << >>
  /\ out = << >>
  /\ tickLog = << >>
  /\ nextSocket = 0
  /\ shotsFired = 0
  /\ nMoves = 0
  /\ nMarks = 0
  /\ lastHandler = "none"
  /\ wPlayers = << >>
  /\ wNpcs = << >>
  /\ wBullets = << >>
  /\ walls = WallLayout
  /\ gameTimer = 0
  /\ gameRunning = FALSE
  /\ gameInterval = FALSE
  /\ wOut = << >>
  /\ wNextSocket = 0
  /\ wHadHider = FALSE
  /\ wShots = 0
  /\ wLast = "none"
  /\ p0Status = "LOBBY"
  /\ p0Players = << >>
  /\ p0Npcs = << >>
  /\ p0Bullets = << >>
  /\ p0Timer = 0
  /\ p0Events = << >>
  /\ p0Out = << >>
  /\ p0Log = << >>
  /\ p0NextSocket = 0
  /\ p0Last = "none"
  /\ rooms = << >>
  /\ conns = << >>
  /\ rSent = {}
  /\ rLast = Last("none", 0, NoRoom, FALSE)

\* Lobby, shots and match end: every handler; the players spawn on one
\* point, the NPCs stand still two bullet steps away from it.
Next ==
  \/ Connection
  \/ \E id \in Sockets : StartGame(id, {SpotA}, {SpotC})
  \/ \E id \in Sockets : Disconnect(id)
  \/ \E id \in Sockets : \E input \in FireInputs : Input(id, input)
  \/ Tick({Still})

Spec == Init /\ [][Next]_vars

\* The same program with the interval timer firing again and again:
\* setInterval (line 203) runs the tick every 1 / TICK_RATE seconds whatever
\* the handlers do.
SpecLive == Init /\ [][Next]_vars /\ WF_vars(Tick({Still}))

\* Marking: the host starts one match from the lobby; the NPCs stand within
\* the click radius of one spawn point and outside that of the other; the
\* hunter alone sends inputs: at most two shots, before its first mark
\* (no input here selects slot 1 again).
NextMark ==
  \/ Connection
  \/ \E id \in Sockets : status = "LOBBY" /\ StartGame(id, randomPos, {SpotC})
  \/ \E id \in hunters(players) : \E input \in FireInputs :
       shotsFired < 2 /\ Input(id, input)
  \/ \E id \in hunters(players) : \E input \in MarkInputs : Input(id, input)
  \/ Tick({Still})

SpecMark == Init /\ [][NextMark]_vars

\* Combat: one match, nobody disconnects.
NextCombat ==
  \/ Connection
  \/ \E id \in Sockets : status = "LOBBY" /\ StartGame(id, randomPos, {SpotB})
  \/ \E id \in Sockets : \E input \in FireInputs : Input(id, input)
  \/ Tick({Still})

SpecCombat == Init /\ [][NextCombat]_vars

\* Movement: everybody connects in the lobby; players and NPCs walk and
\* sprint from one spawn point.
NextMove ==
  \/ status = "LOBBY" /\ Connection
  \/ \E id \in Sockets : status = "LOBBY" /\ StartGame(id, {SpotA}, {SpotA})
  \/ \E id \in Sockets : \E input \in MoveInputs : Input(id, input)
  \/ Tick(NpcIntents)

SpecMove == Init /\ [][NextMove]_vars

\* A sender the input handler has to ignore: not a player, dead, or no
\* match PLAYING.
MustIgnore(id) ==
  IF id \in DOMAIN players
  THEN players[id].dead \/ status # "PLAYING"
  ELSE TRUE

\* Ignored inputs: one match with shots and with disconnects while it is
\* PLAYING; moving inputs come only from senders the handler has to ignore.
NextIgnore ==
  \/ status = "LOBBY" /\ Connection
  \/ \E id \in Sockets : status = "LOBBY" /\ StartGame(id, randomPos, {SpotC})
  \/ \E id \in Sockets : status = "PLAYING" /\ Disconnect(id)
  \/ \E id \in Sockets : \E input \in FireInputs : Input(id, input)
  \/ \E id \in Sockets : \E input \in MoveInputs :
       MustIgnore(id) /\ Input(id, input)
  \/ Tick({Still})

SpecIgnore == Init /\ [][NextIgnore]_vars

\* The server with walls: every handler and the game loop; the players
\* connect on one point and are respawned on either of two, the NPC
\* stands on the second.
NextWalls ==
  \/ WConnection({WSpotA})
  \/ \E id \in WSockets : WStartGame(id, {WSpotA, WSpotB}, {WSpotB})
  \/ \E id \in WSockets : WDisconnect(id)
  \/ \E id \in WSockets : \E data \in WInputs(id) : WInput(id, data)
  \/ GameLoop(Waits \cup Targets(walls))

SpecWalls == Init /\ [][NextWalls]_vars

\* The first server: the host starts one match from the lobby; the NPCs
\* stand still on one of the two spawn points, one bullet step from the
\* other.
NextBase ==
  \/ P0Connection
  \/ \E id \in Sockets : p0Status = "LOBBY" /\ P0StartGame(id, randomPos, {SpotB})
  \/ \E id \in Sockets : P0Disconnect(id)
  \/ \E id \in Sockets : \E input \in P0Inputs : P0Input(id, input)
  \/ P0Tick({P0Still})

SpecBase == Init /\ [][NextBase]_vars

\* The relay: connections open, create and join rooms, send game data and
\* close.
NextRelay ==
  \/ RConnect
  \/ \E c \in Conns : \E code \in Codes : RCreate(c, code)
  \/ \E c \in Conns : \E code \in Codes : RJoin(c, code)
  \/ \E c \in Conns : RRelay(c)
  \/ \E c \in Conns : RClose(c)

SpecRelay == Init /\ [][NextRelay]_vars

\* ------------------------------------------------------------------------
\* Claims
\* ------------------------------------------------------------------------
gameOverMsg(reason, hunterWon) == Msg("gameOver", reason, hunterWon, <<>>)

\* The last handler was an accepted startGame.
JustStarted == out = <<Msg("gameStart", "", FALSE, <<>>)>>

\* C1: a step that takes the status to PLAYING (an accepted startGame)
\* leaves exactly one connected player with role "hunter" and every other
\* connected player with role "hider"; while the status is LOBBY (no match
\* has been started yet) no player has role "hunter".
C1_StartAssignsOneHunter ==
  [][/\ (status # "PLAYING" /\ status' = "PLAYING") =>
          /\ Cardinality(hunters(players')) = 1
          /\ \A k \in DOMAIN players' \ hunters(players') :
                players'[k].role = "hider"
     /\ status' = "LOBBY" => hunters(players') = {}]_vars

C1_Witness ==
  /\ JustStarted
  /\ status = "PLAYING"
  /\ Cardinality(DOMAIN players) = 3
  /\ Cardinality(hunters(players)) = 1
  /\ Cardinality(livingHiders(players)) = 2

\* C9: a disconnect during PLAYING that leaves fewer than 2 players sets the
\* status to ENDED in that same step and emits gameOver with reason
\* "NOT ENOUGH PLAYERS" and hunterWon = FALSE; a disconnect that leaves 2 or
\* more players leaves the status as it was.
C9_DisconnectEndsMatch ==
  [][(DOMAIN players' # DOMAIN players /\ DOMAIN players' \subseteq DOMAIN players)
       => /\ (status = "PLAYING" /\ Cardinality(DOMAIN players') < 2) =>
               /\ status' = "ENDED"
               /\ out' = <<gameOverMsg("NOT ENOUGH PLAYERS", FALSE)>>
          /\ Cardinality(DOMAIN players') >= 2 => status' = status]_vars

C9_Witness ==
  /\ status = "ENDED"
  /\ out = <<gameOverMsg("NOT ENOUGH PLAYERS", FALSE)>>
  /\ Cardinality(DOMAIN players) = 1
  /\ timer > 0

\* What the last tick did, bullet by bullet.
LogEntries == {tickLog[i] : i \in DOMAIN tickLog}

\* The step is a tick: its last message is the snapshot.
TickEmitted(o) == o # <<>> /\ o[Len(o)].type = "tick"

\* C2: a tick of a PLAYING match that ends with no living hider while some
\* player has role "hider" sets the status to ENDED and emits gameOver with
\* reason "ALL TARGETS ELIMINATED" and hunterWon = TRUE, whatever the timer,
\* the hunter's ammo and the bullet list are.
C2_AllTargetsFirst ==
  [][(/\ status = "PLAYING"
      /\ TickEmitted(out')
      /\ livingHiders(players') = {}
      /\ someHider(players'))
       => /\ status' = "ENDED"
          /\ out'[1] = gameOverMsg("ALL TARGETS ELIMINATED", TRUE)]_vars

\* The last hider died in the tick where the timer ran out, the hunter
\* had no ammo and no bullet was left.
C2_Witness ==
  /\ status = "ENDED"
  /\ TickEmitted(out)
  /\ out[1] = gameOverMsg("ALL TARGETS ELIMINATED", TRUE)
  /\ timer <= 0
  /\ bullets = <<>>
  /\ \E h \in hunters(players) : players[h].ammo = 0
  /\ \E e \in LogEntries : e.playersKilled # {}

\* C3 as stated: when a bullet is tested within the hit radius of a live
\* NPC and of a live hider, an NPC in range is dead and every hider that was
\* in range is still alive at the end of that tick.
C3_HiderAliveAfterTick ==
  \A e \in LogEntries :
    (e.npcsNear # {} /\ e.hidersNear # {})
      => /\ \E j \in e.npcsNear : npcs[j].dead
         /\ \A k \in e.hidersNear : ~players[k].dead

\* C3: when a bullet is tested within the hit radius of a live NPC and of a
\* live hider, that bullet kills exactly one NPC in range and no player; a
\* hider in range can still die in that tick, by another bullet.
C3_NpcBeforePlayer ==
  \A e \in LogEntries :
    (e.npcsNear # {} /\ e.hidersNear # {})
      => /\ Cardinality(e.npcsKilled) = 1
         /\ e.npcsKilled \subseteq e.npcsNear
         /\ e.playersKilled = {}

C3_Witness ==
  \E e \in LogEntries :
    /\ e.npcsNear # {}
    /\ e.hidersNear # {}
    /\ e.npcsKilled # {}
    /\ \E k \in e.hidersNear : ~players[k].dead

\* C4: in one tick a bullet takes at most one entity (NPC or hider) from
\* alive to dead, however many are within its hit radius, and a bullet that
\* killed something is not in the bullet list after the tick.
C4_OneHitPerBullet ==
  \A e \in LogEntries :
    /\ Cardinality(e.npcsKilled) + Cardinality(e.playersKilled) <= 1
    /\ (e.npcsKilled # {} \/ e.playersKilled # {})
         => /\ e.removed
            /\ \A i \in DOMAIN bullets : bullets[i].id # e.bullet.id

C4_Witness ==
  \E e \in LogEntries :
    /\ Cardinality(e.npcsNear) >= 2
    /\ e.hidersNear # {}
    /\ Cardinality(e.npcsKilled) = 1

\* C7: every bullet handled by a tick has less life after the decrement than
\* before; a bullet whose life is then <= 0 is removed without being tested
\* and kills nothing; the bullets that stay have the decremented, positive
\* life.
C7_LifeDecreases ==
  /\ \A e \in LogEntries :
       /\ e.bullet.life < e.lifeBefore
       /\ e.bullet.life <= 0
            => /\ e.removed
               /\ ~e.tested
               /\ e.npcsKilled = {} /\ e.playersKilled = {}
               /\ \A i \in DOMAIN bullets : bullets[i].id # e.bullet.id
       /\ \A i \in DOMAIN bullets :
            bullets[i].id = e.bullet.id => bullets[i].life = e.bullet.life
  /\ \A i \in DOMAIN bullets : bullets[i].life \in 1..bulletLifeTicks

\* A bullet ran out of life within the hit radius of a live NPC.
C7_Witness ==
  \E e \in LogEntries :
    /\ e.bullet.life <= 0
    /\ e.removed
    /\ \E j \in DOMAIN npcs :
         /\ ~npcs[j].dead
         /\ WithinSq(npcs[j].x - e.bullet.x, npcs[j].y - e.bullet.y, 25)

\* The match was started with three players and nobody has joined since.
Started3(ps) ==
  Cardinality(DOMAIN ps) = 3 /\ \A k \in DOMAIN ps : ps[k].ammo # Undefined

NoneDead(ps) == \A k \in DOMAIN ps : ~ps[k].dead

\* C8 as stated: a match started with three players has its timer at the
\* configured duration; while no player is dead it stays PLAYING as long as
\* the timer is > 0, and the tick that takes the timer to <= 0 ends it with
\* reason "TIME EXPIRED" and hunterWon = FALSE, whatever the hunter fires.
C8_EndsOnlyOnTimeout ==
  [][(Started3(players') /\ NoneDead(players'))
       => /\ (status # "PLAYING" /\ status' = "PLAYING")
               => timer' = gameDurationTicks
          /\ (status = "PLAYING" /\ timer' > 0) => status' = "PLAYING"
          /\ (status = "PLAYING" /\ TickEmitted(out') /\ timer' <= 0)
               => /\ status' = "ENDED"
                  /\ out'[1] = gameOverMsg("TIME EXPIRED", FALSE)]_vars

\* The hunter has no ammo and no bullet is in flight.
OutOfAmmo(ps, bs) ==
  /\ hunterOf(ps) # 0
  /\ ps[hunterOf(ps)].ammo = 0
  /\ bs = <<>>

\* C8: a match started with three players has its timer at the configured
\* duration; while no player is dead, a tick ends it with "TIME EXPIRED" when
\* it takes the timer to <= 0, otherwise with "OUT OF AMMO" when the hunter
\* has ammo 0 and no bullet is left, both with hunterWon = FALSE, and
\* otherwise leaves it PLAYING; no other step changes the status.
C8_EndsOnTimeoutOrAmmo ==
  [][(Started3(players') /\ NoneDead(players'))
       => /\ (status # "PLAYING" /\ status' = "PLAYING")
               => timer' = gameDurationTicks
          /\ (status = "PLAYING" /\ ~TickEmitted(out')) => status' = "PLAYING"
          /\ (status = "PLAYING" /\ TickEmitted(out'))
               => IF timer' <= 0
                  THEN /\ status' = "ENDED"
                       /\ out'[1] = gameOverMsg("TIME EXPIRED", FALSE)
                  ELSE IF OutOfAmmo(players', bullets')
                  THEN /\ status' = "ENDED"
                       /\ out'[1] = gameOverMsg("OUT OF AMMO", FALSE)
                  ELSE /\ status' = "PLAYING"
                       /\ Len(out') = 1]_vars

\* The timer ran out on three living players after the hunter's last shot.
C8_Witness ==
  /\ status = "ENDED"
  /\ TickEmitted(out)
  /\ out[1] = gameOverMsg("TIME EXPIRED", FALSE)
  /\ Started3(players)
  /\ NoneDead(players)
  /\ OutOfAmmo(players, bullets)

\* Distance a bullet has covered after the advance of this tick.
Travelled(b) == (bulletLifeTicks - b.life) * 1000

\* The bullet has been advanced once more after covering the distance from
\* where it was fired to where it was aimed.
PastAim(b) ==
  LET dx == Abs(b.aimX - b.ox)
      dy == Abs(b.aimY - b.oy)
      t == Travelled(b) - 1000
  IN  t >= 0 /\ dx <= t /\ dy <= t /\ dx * dx + dy * dy <= t * t

\* No live NPC within the hit radius of the point (x, y).
NoNpcNear(x, y) ==
  \A j \in DOMAIN npcs : npcs[j].dead \/ ~WithinSq(npcs[j].x - x, npcs[j].y - y, 25)

\* C10 as stated: a bullet fired at the exact position of a hider, with no
\* live NPC near where it was fired, where it was aimed and where it is, has
\* killed that hider by the end of the tick after it covered the distance to
\* the hider, for every distance from 0 upward.
C10_AimedHiderDies ==
  \A e \in LogEntries :
    LET b == e.bullet
    IN  (/\ PastAim(b)
         /\ NoNpcNear(b.ox, b.oy)
         /\ NoNpcNear(b.aimX, b.aimY)
         /\ NoNpcNear(b.x, b.y))
          => \A k \in DOMAIN players :
               (/\ players[k].role = "hider"
                /\ players[k].x = b.aimX
                /\ players[k].y = b.aimY) => players[k].dead

\* C5 as stated, with a player record that has no mark yet allowed: the
\* mark of every NPC is one of 0, 1, 2, 3 and the mark of every connected
\* player is absent or one of 0, 1, 2, 3.
C5_MarksInRange ==
  /\ \A j \in DOMAIN npcs : npcs[j].mark \in 0..3
  /\ \A k \in DOMAIN players : players[k].mark \in (0..3) \cup {Undefined}

\* C6: every player and every NPC has x and y within [20, 1980].
C6_InField ==
  /\ \A k \in DOMAIN players :
       /\ players[k].x \in U(20)..U(GAME_WIDTH - 20)
       /\ players[k].y \in U(20)..U(GAME_HEIGHT - 20)
  /\ \A j \in DOMAIN npcs :
       /\ npcs[j].x \in U(20)..U(GAME_WIDTH - 20)
       /\ npcs[j].y \in U(20)..U(GAME_HEIGHT - 20)

\* A player and an NPC were both stopped at the left and the bottom edge.
C6_Witness ==
  /\ nMoves > 0
  /\ \E k \in DOMAIN players :
       players[k].x = U(20) /\ players[k].y = U(GAME_HEIGHT - 20)
  /\ \E j \in DOMAIN npcs :
       npcs[j].x = U(20) /\ npcs[j].y = U(GAME_HEIGHT - 20)

\* Number of gameOver messages among the messages o.
GameOvers(o) == Cardinality({i \in DOMAIN o : o[i].type = "gameOver"})

\* C11: a step that takes the status from PLAYING to ENDED, by the tick or
\* by a disconnect, emits exactly one gameOver; every other step emits none.
C11_OneGameOverPerEnd ==
  [][IF status = "PLAYING" /\ status' = "ENDED"
     THEN GameOvers(out') = 1
     ELSE GameOvers(out') = 0]_vars

\* A tick ended the match because the hunter ran out of ammo.
C11_Witness ==
  /\ lastHandler = "tick"
  /\ status = "ENDED"
  /\ GameOvers(out) = 1
  /\ out[1].reason = "OUT OF AMMO"

\* A startGame request of socket id that must have no effect: the sender is
\* not a player or not the host, fewer than 2 players are connected, or a
\* match is PLAYING.
StartRefused(id) ==
  \/ id \notin DOMAIN players
  \/ ~players[id].host
  \/ Cardinality(DOMAIN players) < 2
  \/ status = "PLAYING"

\* C12: a startGame request that must have no effect leaves status, timer,
\* NPCs, bullets, events and every player as they were and emits nothing.
C12_RefusedStartIsNoOp ==
  [][\A id \in Sockets :
       (StartRefused(id) /\ StartGame(id, {SpotA}, {SpotC}))
         => /\ UNCHANGED <<status, timer, npcs, bullets, events, players>>
            /\ out' = <<>>]_vars

\* A startGame request was refused while a match with a bullet in flight
\* was PLAYING.
C12_Witness ==
  /\ lastHandler = "startGame"
  /\ out = <<>>
  /\ status = "PLAYING"
  /\ bullets # <<>>
  /\ timer < gameDurationTicks

\* C13: an input from a sender that is not a player, is dead, or sends while
\* no match is PLAYING leaves status, players, NPCs, bullets, timer and
\* events as they were and emits nothing.
C13_IgnoredInputIsNoOp ==
  [][\A id \in Sockets :
       \A input \in FireInputs \cup MoveInputs :
         (MustIgnore(id) /\ Input(id, input))
           => /\ UNCHANGED <<status, players, npcs, bullets, timer, events>>
              /\ out' = <<>>]_vars

\* An input arrived after the match ended with a player dead, a player
\* gone and the hunter still holding ammo.
C13_Witness ==
  /\ lastHandler = "input"
  /\ status = "ENDED"
  /\ \E k \in DOMAIN players : players[k].dead
  /\ \E id \in 1..nextSocket : id \notin DOMAIN players
  /\ \E h \in hunters(players) : players[h].ammo > 0

\* C14 as stated: the input handler only buffers; a step of the input
\* handler changes no player, no NPC mark and no bullet.
C14_InputOnlyBuffered ==
  [][lastHandler' = "input" => UNCHANGED <<players, npcs, bullets>>]_vars

\* C15 as stated: while the status is PLAYING exactly one connected player
\* has role "hunter".
C15_OneHunterWhilePlaying ==
  status = "PLAYING" => Cardinality(hunters(players)) = 1

\* C16 as stated: the status only goes from LOBBY to PLAYING, from PLAYING
\* to ENDED and from ENDED to LOBBY.
C16_PhaseOrder ==
  [][status' # status =>
       <<status, status'>> \in {<<"LOBBY", "PLAYING">>, <<"PLAYING", "ENDED">>,
                                <<"ENDED", "LOBBY">>}]_vars

\* C17: while the status is ENDED, a tick or an input changes neither the
\* timer nor any NPC, bullet or player.
C17_EndedIsFrozen ==
  [][(status = "ENDED" /\ lastHandler' \in {"tick", "input"})
       => UNCHANGED <<status, timer, npcs, bullets, players>>]_vars

\* A tick ran after the match had ended with a bullet in flight.
C17_Witness ==
  /\ status = "ENDED"
  /\ lastHandler = "tick"
  /\ GameOvers(out) = 0
  /\ bullets # <<>>
  /\ timer > 0

IsPrefix(s, t) == Len(s) <= Len(t) /\ SubSeq(t, 1, Len(s)) = s

\* The events of the snapshot a tick emitted.
Snapshot(o) == o[Len(o)].events

\* C18 as stated: pending one-shot events stay pending until a tick, and
\* that tick's snapshot carries them; no step discards them undelivered, and
\* after a tick nothing is pending.
C18_EventsDeliveredOnce ==
  [][/\ lastHandler' = "tick"
          => IsPrefix(events, Snapshot(out')) /\ events' = <<>>
     /\ lastHandler' # "tick" => IsPrefix(events, events')]_vars

\* Some live NPC is within the click radius of the aim point of input.
LiveNpcInClick(input) ==
  \E j \in DOMAIN npcs :
    ~npcs[j].dead /\ WithinSq(npcs[j].x - input.aimX, npcs[j].y - input.aimY, 60)

\* C19: a mark action (shoot with slot 2) changes the mark of at most one
\* entity; rSent by the live hunter of a PLAYING match with a live NPC within
\* the click radius of the aim point, it changes the mark of one live NPC in
\* that radius and of no player; a player's mark changes only when no live
\* NPC is in the radius, and then it is a live hider in the radius.
C19_OneMarkNpcFirst ==
  [][\A id \in Sockets :
       \A input \in MarkInputs :
         Input(id, input) =>
           LET changedN == {j \in DOMAIN npcs : npcs'[j].mark # npcs[j].mark}
               changedP == {k \in DOMAIN players :
                              players'[k].mark # players[k].mark}
               sent == /\ id \in DOMAIN players
                       /\ players[id].role = "hunter"
                       /\ ~players[id].dead
                       /\ status = "PLAYING"
           IN  /\ Cardinality(changedN) + Cardinality(changedP) <= 1
               /\ \A j \in changedN :
                    /\ ~npcs[j].dead
                    /\ WithinSq(npcs[j].x - input.aimX,
                                npcs[j].y - input.aimY, 60)
               /\ LiveNpcInClick(input) => changedP = {}
               /\ (sent /\ LiveNpcInClick(input)) => Cardinality(changedN) = 1
               /\ \A k \in changedP :
                    /\ players[k].role = "hider"
                    /\ ~players[k].dead
                    /\ WithinSq(players[k].x - input.aimX,
                                players[k].y - input.aimY, 60)]_vars

\* A mark aimed at two hiders on one point, the first of them dead, went to
\* the second.
C19_Witness ==
  /\ lastHandler = "input"
  /\ status = "PLAYING"
  /\ \E d, k \in DOMAIN players :
       /\ d < k
       /\ players[d].role = "hider" /\ players[k].role = "hider"
       /\ players[d].x = players[k].x /\ players[d].y = players[k].y
       /\ players[d].dead /\ players[d].mark = 0
       /\ ~players[k].dead /\ players[k].mark = 1

\* C20: a tick that ends the match with reason "OUT OF AMMO" leaves no
\* bullet in the list: while a bullet is in flight the match is not ended
\* for lack of ammo.
C20_NoAmmoEndWithLiveBullet ==
  (GameOvers(out) = 1 /\ out[1].reason = "OUT OF AMMO")
    => /\ lastHandler = "tick"
       /\ bullets = <<>>
       /\ \E h \in hunters(players) : players[h].ammo = 0

\* The win check of a tick passed with the hunter out of ammo and a bullet
\* still in flight.
C20_Witness ==
  /\ lastHandler = "tick"
  /\ status = "PLAYING"
  /\ timer > 0
  /\ bullets # <<>>
  /\ \E h \in hunters(players) : players[h].ammo = 0

\* C24: a dead NPC keeps its position, intent, move timer and mark in every
\* step that is not an accepted startGame, and every bullet a tick removes
\* either ran out of life or killed an entity that was alive.
C24_DeadNpcFrozen ==
  [][/\ ~JustStarted'
          => \A j \in DOMAIN npcs : npcs[j].dead => npcs'[j] = npcs[j]
     /\ \A e \in LogEntries' :
          e.removed => \/ e.bullet.life <= 0
                       \/ e.npcsKilled # {}
                       \/ e.playersKilled # {}]_vars

\* A mark action went past a dead NPC to a live one behind it, and a bullet
\* went past a dead NPC and killed the next.
C24_Witness ==
  /\ lastHandler = "input"
  /\ Cardinality({j \in DOMAIN npcs : npcs[j].dead}) >= 2
  /\ \E j, k \in DOMAIN npcs :
       /\ j < k
       /\ npcs[j].x = npcs[k].x /\ npcs[j].y = npcs[k].y
       /\ npcs[j].dead /\ npcs[j].mark = 0
       /\ npcs[k].mark = 1

\* C25: whenever a player is connected, exactly one connected player has
\* the host flag, and it is the one that connected first among them.
C25_OneHostEarliest ==
  DOMAIN players # {}
    => {k \in DOMAIN players : players[k].host} = {FirstKey(players)}

\* The first socket has left and the host flag went to the next one while
\* two players stayed.
C25_Witness ==
  /\ lastHandler = "disconnect"
  /\ 1 \notin DOMAIN players
  /\ Cardinality(DOMAIN players) = 2
  /\ players[2].host

\* C26: the hunter's ammunition is never negative, and while a hunter is
\* connected its ammunition plus the bullets created since the match
\* started equals hunterAmmo; at most hunterAmmo bullets are created in a
\* match and the bullet list never holds more than hunterAmmo entries.
C26_AmmoConserved ==
  /\ \A h \in hunters(players) :
       /\ players[h].ammo >= 0
       /\ players[h].ammo + shotsFired = hunterAmmo
  /\ shotsFired <= hunterAmmo
  /\ Len(bullets) <= hunterAmmo

\* The hunter has spent every round and all of the bullets are in flight.
C26_Witness ==
  /\ lastHandler = "input"
  /\ status = "PLAYING"
  /\ shotsFired = hunterAmmo
  /\ Len(bullets) = hunterAmmo
  /\ \E h \in hunters(players) : players[h].ammo = 0

\* C27: with the tick firing again and again, every match that is PLAYING
\* eventually becomes ENDED, whatever inputs, connections and
\* disconnections happen in between.
C27_PlayingEnds == (status = "PLAYING") ~> (status = "ENDED")

\* A match that ran its whole duration and was ended by the timer.
C27_Witness ==
  /\ lastHandler = "tick"
  /\ status = "ENDED"
  /\ timer <= 0
  /\ \E i \in 1..Len(out) : out[i].type = "gameOver" /\ out[i].reason = "TIME EXPIRED"

\* C21 as stated: a run of the game loop that starts with the match running
\* and no hider alive announces the hunter's win "ALL TARGETS ELIMINATED",
\* also when the timer runs out in that run.
C21_NoHiderMeansHunterWin ==
  [][(wLast' = "gameLoop" /\ gameRunning /\ livingHiders(wPlayers) = {})
       => \E i \in 1..Len(wOut') :
            wOut'[i] = Msg("gameOver", "ALL TARGETS ELIMINATED", TRUE, <<>>)]_vars

\* C22 as stated: a startGame request while fewer than two players are
\* connected starts nothing and assigns no role, and the hunter's win
\* "ALL TARGETS ELIMINATED" is announced only in a match that had a hider.
C22_StartNeedsTwoPlayers ==
  [][/\ (wLast' = "startGame" /\ ~gameRunning
            /\ Cardinality(DOMAIN wPlayers) < 2)
         => (~gameRunning' /\ wPlayers' = wPlayers)
     /\ (\E i \in 1..Len(wOut') :
            wOut'[i] = Msg("gameOver", "ALL TARGETS ELIMINATED", TRUE, <<>>))
         => wHadHider']_vars

\* C23 as stated: one bullet marks at most one entity dead in one tick, and
\* when it kills an NPC it kills no player.
C23_OneKillPerProjectile ==
  \A i \in 1..Len(p0Log) :
    /\ Cardinality(p0Log[i].npcsKilled)
         + Cardinality(p0Log[i].playersKilled) <= 1
    /\ p0Log[i].npcsKilled # {} => p0Log[i].playersKilled = {}

\* C28 as stated: broadcast() is called only for the connection that is
\* the room's hostId, a room leaves the registry only in the close handler
\* of the connection that is its hostId, and relayed data reaches a
\* connection only from the room that is its roomCode.
C28_HostPrivileges ==
  [][/\ (rLast'.op = "relay" /\ rLast'.fanout)
         => rooms'[rLast'.room].hostId = rLast'.conn
     /\ \A code \in DOMAIN rooms \ DOMAIN rooms' :
          rLast'.op = "close" /\ rLast'.conn = rooms[code].hostId
     /\ \A m \in rSent' :
          m.type = "DATA" => conns'[m.to].roomCode = m.room]_vars

====
